---- MODULE Spec2Model ----
(***************************************************************************)
(* Model of packages/backend-test-utils/src/next/wiring/TestBackend.ts:    *)
(* startTestBackend (override normalizer, default merger, the synthesized  *)
(* root HTTP router and discovery factories, backend assembly and start)   *)
(* and registerTestHooks (the global afterAll teardown hook).              *)
(*                                                                         *)
(* JavaScript runs one job at a time: a call executes without interleaving *)
(* until it reaches an await.  The variable cur names the call whose       *)
(* synchronous section is executing (empty when the event loop is free).   *)
(***************************************************************************)
EXTENDS Integers, Sequences, FiniteSets, TLC

\* ------------------------------------------------------------------ bounds
MaxCalls == 2
MaxServices == 2
MaxRegisterCalls == 2

Calls == 1..MaxCalls
\* `let server: ExtendedHttpServer;` holds undefined until assigned.
NoServer == 0

\* --------------------------------------------------------- service ids
RootHttpRouterId == "rootHttpRouter"
DiscoveryId == "discovery"

\* The ids of defaultServiceFactories, in the order of the array literal.
DefaultIds ==
  << "cache", "database", "httpRouter", "lifecycle", "logger", "config",
     "tokenManager", "permissions", "rootLifecycle", "rootLogger",
     "scheduler", "urlReader" >>

Range(s) == { s[i] : i \in 1..Len(s) }

\* A ServiceRef: its id and its scope ('root' or 'plugin').
ServiceRef(id, scope) == [id |-> id, scope |-> scope]

\* What a factory's factory function resolves to:
\*   kind "value"    - the value v itself
\*   kind "provider" - a zero-argument async function resolving to v
\*   kind "impl"     - the implementation built by a ready-made factory
Produces(kind, v) == [kind |-> kind, v |-> v]

\* A ServiceFactory: service ref, declared deps, what it produces, and who
\* constructed it ("user", "default", or "synth" for the two factories
\* startTestBackend builds itself).
ServiceFactory(ref, deps, produces, origin) ==
  [service |-> ref, deps |-> deps, produces |-> produces, origin |-> origin]

NoFactory == ServiceFactory(ServiceRef("none", "root"), {}, Produces("none", "none"), "none")

\* createServiceFactory({service: ref, deps: {}, factory})() as used by the
\* normalizer: a zero-dependency factory for ref.
CreateServiceFactory(ref, produces) == ServiceFactory(ref, {}, produces, "user")

defaultServiceFactories ==
  [ i \in 1..Len(DefaultIds) |->
      ServiceFactory(ServiceRef(DefaultIds[i], "root"), {},
                     Produces("impl", DefaultIds[i]), "default") ]

\* ------------------------------------------------------- override entries
\* An entry of options.services is one of
\*   shape "factory"  : a ready ServiceFactory (field factory)
\*   shape "function" : () => ServiceFactory  (field factory = what it returns)
\*   shape "array"    : [ref, impl]
Entry(shape, ref, impl, factory) ==
  [shape |-> shape, ref |-> ref, impl |-> impl, factory |-> factory]

UserIds == { "cache", "urlReader", RootHttpRouterId, DiscoveryId, "custom" }
Scopes == { "root", "plugin" }
Impls == { "implA", "implB" }

ReadyFactory(id, tag) ==
  ServiceFactory(ServiceRef(id, "root"), {}, Produces("impl", tag), "user")

Entries ==
  { Entry("factory", ServiceRef(id, "root"), "none", ReadyFactory(id, "ready")) : id \in UserIds }
  \cup
  { Entry("function", ServiceRef(id, "root"), "none", ReadyFactory(id, "returned")) : id \in UserIds }
  \cup
  { Entry("array", ServiceRef(id, sc), impl, NoFactory) : id \in UserIds, sc \in Scopes, impl \in Impls }

SeqsUpTo(S, n) == UNION { [1..k -> S] : k \in 0..n }

\* ------------------------------------------------------ override normalizer
\* A normalizer without the 'plugin' branch: the value itself for every scope.
NormalizeArrayNoPlugin(ref, impl) ==
  CreateServiceFactory(ref, Produces("value", impl))

\* services.map callback, Array.isArray branch.
NormalizeArray(ref, impl) ==
  IF ref.scope = "plugin"
  THEN CreateServiceFactory(ref, Produces("provider", impl))
  ELSE CreateServiceFactory(ref, Produces("value", impl))

\* services.map callback.
NormalizeEntry(e) ==
  IF e.shape = "array" THEN NormalizeArray(e.ref, e.impl)
  ELSE IF e.shape = "function" THEN e.factory
  ELSE e.factory

Normalize(svcs) == [ i \in 1..Len(svcs) |-> NormalizeEntry(svcs[i]) ]

\* ------------------------------------------------------------ default merger
\* A merge test that compares factory objects instead of service ids.
HasServiceIdByIdentity(fs, factory) == \E i \in 1..Len(fs) : fs[i] = factory

\* factories.some(f => f.service.id === factory.service.id)
HasServiceId(fs, factory) ==
  \E i \in 1..Len(fs) : fs[i].service.id = factory.service.id

\* for (const factory of defaultServiceFactories) { if (!some) push }
RECURSIVE MergeFrom(_, _)
MergeFrom(fs, k) ==
  IF k > Len(defaultServiceFactories) THEN fs
  ELSE MergeFrom(IF HasServiceId(fs, defaultServiceFactories[k])
                 THEN fs
                 ELSE Append(fs, defaultServiceFactories[k]),
                 k + 1)

\* A merger that puts the missing defaults in front of the user's factories.
MergeDefaultsInFront(fs) ==
  SelectSeq(defaultServiceFactories, LAMBDA d : ~HasServiceId(fs, d)) \o fs

MergeDefaults(fs) == MergeFrom(fs, 1)

\* ------------------------------------------------------------------- state
VARIABLES
  pc,                 \* per call: the position of startTestBackend
  cur,                \* the set holding the call that is executing synchronously
  services,           \* per call: options.services
  extensionPoints,    \* per call: options.extensionPoints
  features,           \* per call: options.features
  factories,          \* per call: the local `factories` array
  backend,            \* per call: the services list given to createSpecializedBackend
  added,              \* per call: ids of the features given to backend.add, in order
  registeredExtensionPoints, \* per call: what the registrar feature registered
  server,             \* per slot: the `server` variable
  serverState,        \* per server handle: "none", "created", "starting", "listening", "stopped"
  shutdownHook,       \* per call: the root lifecycle holds the hook that stops the server
  discoveryPort,      \* per call: the handle whose port the discovery service was built from
  serverProp,         \* per call: the own property `server` of the returned backend
  outcome,            \* per call: "pending", "resolved", or the error the promise rejected with
  raised,             \* per call: the error thrown during startup ("none" if none)
  dupPolicy,          \* how the framework treats two factories with one service id ("unset" until it had to)
  backendInstancesToCleanUp, \* the module-level cleanup registry
  recorded,           \* the calls whose backend was ever pushed to the registry
  registered,         \* the module-level `registered` flag
  afterAllIsFunction, \* typeof afterAll === 'function'
  afterAllCallbacks,  \* number of callbacks given to afterAll
  registerCalls,      \* number of registerTestHooks calls so far
  hookPc,             \* the afterAll callback: "idle", "awaiting", "done"
  hookBackends,       \* the backends mapped by the callback (the promises it awaits)
  stopCalls,          \* per call: number of stop() invocations made by the callback
  stopWrapper,        \* per call: state of the async wrapper around backend.stop()
  errorLog,           \* backends whose stop failure was written to console.error
  hookOutcome         \* "none", "resolved", "rejected"

callVars == << pc, cur, services, extensionPoints, features, factories, backend,
               added, registeredExtensionPoints, outcome, raised >>
serverVars == << server, serverState, shutdownHook, discoveryPort, serverProp >>
registryVars == << backendInstancesToCleanUp, recorded >>
registerVars == << registered, afterAllCallbacks, registerCalls >>
hookVars == << hookPc, hookBackends, stopCalls, stopWrapper, errorLog, hookOutcome >>
envVars == << dupPolicy, afterAllIsFunction >>
vars == << callVars, serverVars, registryVars, registerVars, hookVars, envVars >>

\* -------------------------------------------------------------- the options
RegistrarId == "---test-extension-point-registrar"

Options(svcs, eps, feats) ==
  [services |-> svcs, extensionPoints |-> eps, features |-> feats]

\* The options the calls of the full specification are made with.
OptionChoices ==
  { Options(<< >>, << >>, << >>),
    Options(<< Entry("factory", ServiceRef(RootHttpRouterId, "root"), "none",
                     ReadyFactory(RootHttpRouterId, "ready")) >>,
            << >>, << "featA" >>),
    Options(<< Entry("array", ServiceRef("custom", "plugin"), "implA", NoFactory),
               Entry("function", ServiceRef("cache", "root"), "none",
                     ReadyFactory("cache", "returned")),
               Entry("array", ServiceRef(DiscoveryId, "root"), "implB", NoFactory),
               Entry("factory", ServiceRef(RootHttpRouterId, "root"), "none",
                     ReadyFactory(RootHttpRouterId, "ready")) >>,
            << [ref |-> "ep1", impl |-> "implA"] >>, << "featA", "featB" >>) }

\* ------------------------------------------------- the synthesized factories
rootHttpRouterFactory ==
  ServiceFactory(ServiceRef(RootHttpRouterId, "root"),
                 { "config", "rootLifecycle", "rootLogger" },
                 Produces("impl", "router"), "synth")

discoveryFactory ==
  ServiceFactory(ServiceRef(DiscoveryId, "root"), { RootHttpRouterId },
                 Produces("provider", "discovery"), "synth")

\* services: [...factories, rootHttpRouterFactory, discoveryFactory]
ComposedServices(fs) == fs \o << rootHttpRouterFactory, discoveryFactory >>

\* The slot a call's closures read and write: `let server` is declared inside
\* startTestBackend, one variable per call.  SharedSlot is the module-level
\* alternative, one variable for all calls.
SharedSlot(c) == 1

SlotOf(c) == c

\* ------------------------------------------------- the framework (external)
DupPolicies == { "first", "last", "reject" }

HasDuplicateIds(list) ==
  \E i, j \in 1..Len(list) : i # j /\ list[i].service.id = list[j].service.id

\* The origin of the factory the framework keeps for service id.
ActiveOrigin(list, id, policy) ==
  LET idx == { i \in 1..Len(list) : list[i].service.id = id }
      pick == IF policy = "first"
              THEN CHOOSE i \in idx : \A j \in idx : i <= j
              ELSE CHOOSE i \in idx : \A j \in idx : i >= j
  IN  list[pick].origin

RouterActive(c) == ActiveOrigin(backend[c], RootHttpRouterId, dupPolicy)
DiscoveryActive(c) == ActiveOrigin(backend[c], DiscoveryId, dupPolicy)

\* ------------------------------------------------------------------- Init
\* The variables that start the same way in every specification.
InitCommon ==
  /\ extensionPoints = [c \in Calls |-> << >>]
  /\ features = [c \in Calls |-> << >>]
  /\ factories = [c \in Calls |-> << >>]
  /\ backend = [c \in Calls |-> << >>]
  /\ added = [c \in Calls |-> << >>]
  /\ registeredExtensionPoints = [c \in Calls |-> << >>]
  /\ server = [c \in Calls |-> NoServer]
  /\ serverState = [c \in Calls |-> "none"]
  /\ shutdownHook = [c \in Calls |-> FALSE]
  /\ discoveryPort = [c \in Calls |-> NoServer]
  /\ serverProp = [c \in Calls |-> NoServer]
  /\ outcome = [c \in Calls |-> "pending"]
  /\ raised = [c \in Calls |-> "none"]
  /\ backendInstancesToCleanUp = << >>
  /\ recorded = {}
  /\ hookPc = "idle"
  /\ hookBackends = << >>
  /\ stopCalls = [c \in Calls |-> 0]
  /\ stopWrapper = [c \in Calls |-> "none"]
  /\ errorLog = {}
  /\ hookOutcome = "none"

\* The module's top-level declarations have run; registerTestHooks() at the
\* end of the module has not yet.
Init ==
  /\ InitCommon
  /\ pc = [c \in Calls |-> "idle"]
  /\ cur = {}
  /\ services = [c \in Calls |-> << >>]
  /\ dupPolicy = "unset"
  /\ registered = FALSE
  /\ afterAllIsFunction \in BOOLEAN
  /\ afterAllCallbacks = 0
  /\ registerCalls = 0

\* ------------------------------------------------------ startTestBackend
\* An exception leaves startTestBackend: nothing in it catches, so the
\* promise it returned rejects with the error e itself.
\* ThrowReplaced: the error is caught and replaced by another one.
ThrowReplaced(c, e) ==
  /\ pc' = [pc EXCEPT ![c] = "rejected"]
  /\ outcome' = [outcome EXCEPT ![c] = "Failed to start test backend"]
  /\ raised' = [raised EXCEPT ![c] = e]
  /\ cur' = {}

Throw(c, e) ==
  /\ pc' = [pc EXCEPT ![c] = "rejected"]
  /\ outcome' = [outcome EXCEPT ![c] = e]
  /\ raised' = [raised EXCEPT ![c] = e]
  /\ cur' = {}

\* The synchronous section of call c moves on to position p.
Goto(c, p) ==
  /\ pc' = [pc EXCEPT ![c] = p]
  /\ UNCHANGED << outcome, raised >>

\* startTestBackend(options): the destructuring of options.  The module has
\* been evaluated (registerTestHooks() ran) before anything can call it.
\* Calls are numbered in the order they are made.
Call(c, o) ==
  /\ cur = {}
  /\ registerCalls >= 1
  /\ pc[c] = "idle"
  /\ \A d \in Calls : d < c => pc[d] # "idle"
  /\ services' = [services EXCEPT ![c] = o.services]
  /\ extensionPoints' = [extensionPoints EXCEPT ![c] = o.extensionPoints]
  /\ features' = [features EXCEPT ![c] = o.features]
  /\ cur' = {c}
  /\ Goto(c, "normalize")
  /\ UNCHANGED << factories, backend, added, registeredExtensionPoints >>
  /\ UNCHANGED << serverVars, registryVars, registerVars, hookVars, envVars >>

\* const factories = services.map(...)
NormalizeStep(c) ==
  /\ cur = {c}
  /\ pc[c] = "normalize"
  /\ factories' = [factories EXCEPT ![c] = Normalize(services[c])]
  /\ Goto(c, "merge")
  /\ UNCHANGED << cur, services, extensionPoints, features, backend, added,
                  registeredExtensionPoints >>
  /\ UNCHANGED << serverVars, registryVars, registerVars, hookVars, envVars >>

\* the loop over defaultServiceFactories
MergeStep(c) ==
  /\ cur = {c}
  /\ pc[c] = "merge"
  /\ factories' = [factories EXCEPT ![c] = MergeDefaults(factories[c])]
  /\ Goto(c, "create")
  /\ UNCHANGED << cur, services, extensionPoints, features, backend, added,
                  registeredExtensionPoints >>
  /\ UNCHANGED << serverVars, registryVars, registerVars, hookVars, envVars >>

\* const backend = createSpecializedBackend({...}).  The framework's way of
\* treating two factories for one service id is fixed the first time a list
\* with such a pair is composed.
CreateBackend(c) ==
  /\ cur = {c}
  /\ pc[c] = "create"
  /\ LET list == ComposedServices(factories[c])
     IN  \/ /\ \E p \in DupPolicies :
                 /\ p # "reject"
                 /\ IF HasDuplicateIds(list)
                    THEN dupPolicy \in { "unset", p } /\ dupPolicy' = p
                    ELSE p = "last" /\ UNCHANGED dupPolicy
            /\ backend' = [backend EXCEPT ![c] = list]
            /\ Goto(c, "push")
            /\ UNCHANGED cur
         \/ /\ HasDuplicateIds(list)
            /\ dupPolicy \in { "unset", "reject" }
            /\ dupPolicy' = "reject"
            /\ Throw(c, "Duplicate service implementations")
            /\ UNCHANGED backend
         \/ /\ Throw(c, "createSpecializedBackend failed")
            /\ UNCHANGED << backend, dupPolicy >>
  /\ UNCHANGED << services, extensionPoints, features, factories, added,
                  registeredExtensionPoints >>
  /\ UNCHANGED << serverVars, registryVars, registerVars, hookVars, afterAllIsFunction >>

\* A startTestBackend that leaves the registry alone before start.
RegistryAfterPushUntouched(registry, b) == registry

\* backendInstancesToCleanUp.push(backend): the registry afterwards
RegistryAfterPush(registry, b) == Append(registry, b)

\* backendInstancesToCleanUp.push(backend)
PushBackend(c) ==
  /\ cur = {c}
  /\ pc[c] = "push"
  /\ backendInstancesToCleanUp' = RegistryAfterPush(backendInstancesToCleanUp, c)
  /\ recorded' = recorded \cup {c}
  /\ Goto(c, "addRegistrar")
  /\ UNCHANGED << cur, services, extensionPoints, features, factories, backend,
                  added, registeredExtensionPoints >>
  /\ UNCHANGED << serverVars, registerVars, hookVars, envVars >>

\* backend.add({ id: `---test-extension-point-registrar`, register })
AddRegistrar(c) ==
  /\ cur = {c}
  /\ pc[c] = "addRegistrar"
  /\ added' = [added EXCEPT ![c] = Append(@, RegistrarId)]
  /\ Goto(c, IF features[c] = << >> THEN "start" ELSE "addFeatures")
  /\ UNCHANGED << cur, services, extensionPoints, features, factories, backend,
                  registeredExtensionPoints >>
  /\ UNCHANGED << serverVars, registryVars, registerVars, hookVars, envVars >>

\* A loop that walks the features from the last to the first.
NextFeatureBackwards(feats, k) == feats[Len(feats) + 1 - k]

\* for (const feature of features): the feature of the k-th iteration
NextFeature(feats, k) == feats[k]

\* for (const feature of features) backend.add(feature): one iteration
AddFeature(c) ==
  /\ cur = {c}
  /\ pc[c] = "addFeatures"
  /\ LET k == Len(added[c])
     IN  /\ added' = [added EXCEPT ![c] = Append(@, NextFeature(features[c], k))]
         /\ Goto(c, IF k = Len(features[c]) THEN "start" ELSE "addFeatures")
  /\ UNCHANGED << cur, services, extensionPoints, features, factories, backend,
                  registeredExtensionPoints >>
  /\ UNCHANGED << serverVars, registryVars, registerVars, hookVars, envVars >>

\* await backend.start(): start is invoked and the call suspends
InvokeStart(c) ==
  /\ cur = {c}
  /\ pc[c] = "start"
  /\ cur' = {}
  /\ Goto(c, "starting")
  /\ UNCHANGED << services, extensionPoints, features, factories, backend, added,
                  registeredExtensionPoints >>
  /\ UNCHANGED << serverVars, registryVars, registerVars, hookVars, envVars >>

\* register(reg) of the registrar feature, called by the framework in start:
\* reg.registerExtensionPoint(ref, impl) for every override, then registerInit
RegistrarRegister(c) ==
  /\ cur = {}
  /\ pc[c] = "starting"
  /\ registeredExtensionPoints' = [registeredExtensionPoints EXCEPT ![c] = extensionPoints[c]]
  /\ Goto(c, "instantiate")
  /\ UNCHANGED << cur, services, extensionPoints, features, factories, backend, added >>
  /\ UNCHANGED << serverVars, registryVars, registerVars, hookVars, envVars >>

\* The framework instantiates the factories the synthesized root HTTP router
\* depends on (config, rootLifecycle, rootLogger) and the other services.
InstantiateDeps(c) ==
  /\ cur = {}
  /\ pc[c] = "instantiate"
  /\ \/ Goto(c, "router") /\ UNCHANGED cur
     \/ Throw(c, "service factory failed")
  /\ UNCHANGED << services, extensionPoints, features, factories, backend, added,
                  registeredExtensionPoints >>
  /\ UNCHANGED << serverVars, registryVars, registerVars, hookVars, envVars >>

\* --------------------------------------------- the root HTTP router factory
\* factory({config, lifecycle, rootLogger}) up to `await createHttpServer(...)`:
\* router, logger, app and middleware are built, createHttpServer is called.
RouterFactoryBegin(c) ==
  /\ cur = {}
  /\ pc[c] = "router"
  /\ RouterActive(c) = "synth"
  /\ Goto(c, "createHttpServer")
  /\ UNCHANGED << cur, services, extensionPoints, features, factories, backend, added,
                  registeredExtensionPoints >>
  /\ UNCHANGED << serverVars, registryVars, registerVars, hookVars, envVars >>

\* The framework kept a root HTTP router factory of the user: it is
\* instantiated and the synthesized one never runs.
UserRouterFactory(c) ==
  /\ cur = {}
  /\ pc[c] = "router"
  /\ RouterActive(c) = "user"
  /\ Goto(c, "discovery")
  /\ UNCHANGED cur
  /\ UNCHANGED << services, extensionPoints, features, factories, backend, added,
                  registeredExtensionPoints >>
  /\ UNCHANGED << serverVars, registryVars, registerVars, hookVars, envVars >>

\* A factory that awaits server.start() right after createHttpServer and
\* registers the shutdown hook only afterwards.
RouterStepAfterStartFirst(p) ==
  CASE p = "createHttpServer" -> "serverStart"
    [] p = "serverStart" -> "awaitServerStart"
    [] p = "awaitServerStart" -> "addShutdownHook"
    [] p = "addShutdownHook" -> "discovery"

\* The statement order of the factory body after `await createHttpServer`:
\* the assignment to the slot is followed by lifecycle.addShutdownHook, then
\* `await server.start()`, then `return router`.
RouterStepAfter(p) ==
  CASE p = "createHttpServer" -> "addShutdownHook"
    [] p = "addShutdownHook" -> "serverStart"
    [] p = "serverStart" -> "awaitServerStart"
    [] p = "awaitServerStart" -> "discovery"

\* A `const server = await createHttpServer(...)` inside the factory would
\* shadow the slot and leave it as it was.
AssignServerShadowed(old, handle) == old

\* server = await createHttpServer(...): the value the slot holds afterwards.
AssignServer(old, handle) == handle

\* server = await createHttpServer(...): the promise settles; on success the
\* handle (numbered by the call that created it) is stored in the slot.
CreateHttpServerSettle(c) ==
  /\ cur = {}
  /\ pc[c] = "createHttpServer"
  /\ \/ /\ server' = [server EXCEPT ![SlotOf(c)] = AssignServer(@, c)]
        /\ serverState' = [serverState EXCEPT ![c] = "created"]
        /\ cur' = {c}
        /\ Goto(c, RouterStepAfter("createHttpServer"))
     \/ /\ Throw(c, "createHttpServer failed")
        /\ UNCHANGED << server, serverState >>
  /\ UNCHANGED << services, extensionPoints, features, factories, backend, added,
                  registeredExtensionPoints >>
  /\ UNCHANGED << shutdownHook, discoveryPort, serverProp >>
  /\ UNCHANGED << registryVars, registerVars, hookVars, envVars >>

\* A factory body without the lifecycle.addShutdownHook statement.
AddShutdownHookSkipped(c) ==
  /\ cur = {c}
  /\ pc[c] = "addShutdownHook"
  /\ Goto(c, RouterStepAfter("addShutdownHook"))
  /\ UNCHANGED << cur, services, extensionPoints, features, factories, backend, added,
                  registeredExtensionPoints >>
  /\ UNCHANGED << server, serverState, shutdownHook, discoveryPort, serverProp >>
  /\ UNCHANGED << registryVars, registerVars, hookVars, envVars >>

\* lifecycle.addShutdownHook({ fn: () => server.stop(), logger })
AddShutdownHook(c) ==
  /\ cur = {c}
  /\ pc[c] = "addShutdownHook"
  /\ shutdownHook' = [shutdownHook EXCEPT ![c] = TRUE]
  /\ Goto(c, RouterStepAfter("addShutdownHook"))
  /\ UNCHANGED << cur, services, extensionPoints, features, factories, backend, added,
                  registeredExtensionPoints >>
  /\ UNCHANGED << server, serverState, discoveryPort, serverProp >>
  /\ UNCHANGED << registryVars, registerVars, hookVars, envVars >>

\* await server.start(): start is invoked on the handle in the slot
ServerStartInvoke(c) ==
  /\ cur = {c}
  /\ pc[c] = "serverStart"
  /\ serverState' = IF server[SlotOf(c)] = NoServer THEN serverState
                    ELSE [serverState EXCEPT ![server[SlotOf(c)]] = "starting"]
  /\ cur' = {}
  /\ Goto(c, RouterStepAfter("serverStart"))
  /\ UNCHANGED << services, extensionPoints, features, factories, backend, added,
                  registeredExtensionPoints >>
  /\ UNCHANGED << server, shutdownHook, discoveryPort, serverProp >>
  /\ UNCHANGED << registryVars, registerVars, hookVars, envVars >>

\* server.start() settles; on success the factory returns the router
ServerStartSettle(c) ==
  /\ cur = {}
  /\ pc[c] = "awaitServerStart"
  /\ \/ /\ serverState' = IF server[SlotOf(c)] = NoServer THEN serverState
                          ELSE [serverState EXCEPT ![server[SlotOf(c)]] =
                                  IF @ = "starting" THEN "listening" ELSE @]
        /\ Goto(c, RouterStepAfter("awaitServerStart"))
        /\ UNCHANGED cur
     \/ /\ Throw(c, "server.start failed")
        /\ UNCHANGED serverState
  /\ UNCHANGED << services, extensionPoints, features, factories, backend, added,
                  registeredExtensionPoints >>
  /\ UNCHANGED << server, shutdownHook, discoveryPort, serverProp >>
  /\ UNCHANGED << registryVars, registerVars, hookVars, envVars >>

\* ------------------------------------------------------ the discovery factory
\* factory(): throws if the slot is empty, else builds the discovery service
\* from server.port().  The framework runs it after the root HTTP router
\* service it depends on.
DiscoveryFactoryRun(c) ==
  /\ cur = {}
  /\ pc[c] = "discovery"
  /\ DiscoveryActive(c) = "synth"
  /\ IF server[SlotOf(c)] = NoServer
     THEN /\ Throw(c, "Test server not started yet")
          /\ UNCHANGED discoveryPort
     ELSE /\ discoveryPort' = [discoveryPort EXCEPT ![c] = server[SlotOf(c)]]
          /\ Goto(c, "startSettle")
          /\ UNCHANGED cur
  /\ UNCHANGED << services, extensionPoints, features, factories, backend, added,
                  registeredExtensionPoints >>
  /\ UNCHANGED << server, serverState, shutdownHook, serverProp >>
  /\ UNCHANGED << registryVars, registerVars, hookVars, envVars >>

\* The framework kept a discovery factory of the user.
UserDiscoveryFactory(c) ==
  /\ cur = {}
  /\ pc[c] = "discovery"
  /\ DiscoveryActive(c) = "user"
  /\ Goto(c, "startSettle")
  /\ UNCHANGED cur
  /\ UNCHANGED << services, extensionPoints, features, factories, backend, added,
                  registeredExtensionPoints >>
  /\ UNCHANGED << serverVars, registryVars, registerVars, hookVars, envVars >>

\* ------------------------------------------------ the end of startTestBackend
\* backend.start() settles: the features initialized, or start rejects.
StartSettle(c) ==
  /\ cur = {}
  /\ pc[c] = "startSettle"
  /\ \/ cur' = {c} /\ Goto(c, "assign")
     \/ Throw(c, "backend.start failed")
  /\ UNCHANGED << services, extensionPoints, features, factories, backend, added,
                  registeredExtensionPoints >>
  /\ UNCHANGED << serverVars, registryVars, registerVars, hookVars, envVars >>

\* An accessor that returns whatever the slot holds.
ServerGetterNeverThrows(slotValue) == FALSE

\* The `get server()` accessor of the object literal, applied to the slot
\* value: it throws on an empty slot and returns the handle otherwise.
ServerGetterThrows(slotValue) == slotValue = NoServer

\* return Object.assign(backend, { get server() {...} }): Object.assign reads
\* the source's `server` (running the getter) and stores the value it got as
\* a plain property of backend.
ObjectAssign(c) ==
  /\ cur = {c}
  /\ pc[c] = "assign"
  /\ IF ServerGetterThrows(server[SlotOf(c)])
     THEN /\ Throw(c, "TestBackend server is not available")
          /\ UNCHANGED serverProp
     ELSE /\ serverProp' = [serverProp EXCEPT ![c] = server[SlotOf(c)]]
          /\ pc' = [pc EXCEPT ![c] = "done"]
          /\ outcome' = [outcome EXCEPT ![c] = "resolved"]
          /\ cur' = {}
          /\ UNCHANGED raised
  /\ UNCHANGED << services, extensionPoints, features, factories, backend, added,
                  registeredExtensionPoints >>
  /\ UNCHANGED << server, serverState, shutdownHook, discoveryPort >>
  /\ UNCHANGED << registryVars, registerVars, hookVars, envVars >>

\* What a read of `.server` yields: the stored property, or undefined while
\* the backend object has no such property (it has none before ObjectAssign).
ReadServerProperty(c) ==
  IF serverProp[c] = NoServer
  THEN [kind |-> "undefined", value |-> NoServer]
  ELSE [kind |-> "value", value |-> serverProp[c]]

\* ------------------------------------------------------- registerTestHooks
\* A guard that never finds the hook installed.
HookInstalledNever == FALSE

\* if (registered) return;
HookInstalled == registered

\* A registerTestHooks without the `typeof afterAll` test.
AfterAllMissingIgnored == FALSE

\* if (typeof afterAll !== 'function') return
AfterAllMissing == ~afterAllIsFunction

\* registerTestHooks(), called when the module is evaluated (between the
\* startTestBackend calls of the tests, never inside one).
RegisterTestHooks ==
  /\ cur = {}
  /\ registerCalls < MaxRegisterCalls
  /\ \A c \in Calls : pc[c] \in { "idle", "done", "rejected" }
  /\ registerCalls' = registerCalls + 1
  /\ IF AfterAllMissing \/ HookInstalled
     THEN UNCHANGED << registered, afterAllCallbacks >>
     ELSE /\ registered' = TRUE
          /\ afterAllCallbacks' = afterAllCallbacks + 1
  /\ UNCHANGED << callVars, serverVars, registryVars, hookVars, envVars >>

\* ------------------------------------------------------ the afterAll callback
\* The async function mapped over the registry without its try/catch: it
\* settles as backend.stop() settles.
WrapperOutcomeNoCatch(stopResult) == stopResult

\* async backend => { try { await backend.stop() } catch (error) { log } }:
\* the promise it returns fulfils whatever backend.stop() did.
WrapperOutcome(stopResult) == "fulfilled"

\* The callback starts: backendInstancesToCleanUp.map(...) calls the async
\* function on every backend in the registry, each of which invokes
\* backend.stop() and suspends; the callback awaits Promise.all of them.
HookBegin ==
  /\ cur = {}
  /\ afterAllCallbacks >= 1
  /\ hookPc = "idle"
  /\ hookBackends' = backendInstancesToCleanUp
  /\ stopCalls' = [c \in Calls |->
                     IF c \in Range(backendInstancesToCleanUp)
                     THEN stopCalls[c] + 1 ELSE stopCalls[c]]
  /\ stopWrapper' = [c \in Calls |->
                       IF c \in Range(backendInstancesToCleanUp)
                       THEN "pending" ELSE stopWrapper[c]]
  /\ hookPc' = "awaiting"
  /\ UNCHANGED << errorLog, hookOutcome >>
  /\ UNCHANGED << callVars, serverVars, registryVars, registerVars, envVars >>

\* A shutdown hook that also empties the slot after stopping the server.
SlotAfterStopCleared(old) == NoServer

\* fn: () => server.stop() reads the slot and assigns nothing to it: the
\* value the slot holds after the hook has run.
SlotAfterStop(old) == old

\* backend.stop() of backend b settles with r.  An orderly stop runs the
\* shutdown hooks of the root lifecycle, which stop the server in the slot.
StopSettle(b, r) ==
  /\ cur = {}
  /\ hookPc = "awaiting"
  /\ stopWrapper[b] = "pending"
  /\ stopWrapper' = [stopWrapper EXCEPT ![b] = WrapperOutcome(r)]
  /\ errorLog' = IF r = "rejected" /\ WrapperOutcome(r) = "fulfilled"
                 THEN errorLog \cup {b} ELSE errorLog
  /\ serverState' = IF r = "fulfilled" /\ shutdownHook[b] /\ server[SlotOf(b)] # NoServer
                    THEN [serverState EXCEPT ![server[SlotOf(b)]] = "stopped"]
                    ELSE serverState
  /\ server' = IF r = "fulfilled" /\ shutdownHook[b]
               THEN [server EXCEPT ![SlotOf(b)] = SlotAfterStop(@)]
               ELSE server
  /\ UNCHANGED << hookPc, hookBackends, stopCalls, hookOutcome >>
  /\ UNCHANGED << shutdownHook, discoveryPort, serverProp >>
  /\ UNCHANGED << callVars, registryVars, registerVars, envVars >>

\* Promise.all settles: it rejects as soon as one wrapper rejects, which
\* rejects the callback; it fulfils when all have, and the callback goes on to
\* backendInstancesToCleanUp.length = 0.
HookFinish ==
  /\ cur = {}
  /\ hookPc = "awaiting"
  /\ IF \E b \in Range(hookBackends) : stopWrapper[b] = "rejected"
     THEN /\ hookOutcome' = "rejected"
          /\ UNCHANGED backendInstancesToCleanUp
     ELSE /\ \A b \in Range(hookBackends) : stopWrapper[b] = "fulfilled"
          /\ hookOutcome' = "resolved"
          /\ backendInstancesToCleanUp' = << >>
  /\ hookPc' = "done"
  /\ UNCHANGED << hookBackends, stopCalls, stopWrapper, errorLog, recorded >>
  /\ UNCHANGED << callVars, serverVars, registerVars, envVars >>

\* ----------------------------------------------------------- specifications
Next ==
  \/ \E c \in Calls, o \in OptionChoices : Call(c, o)
  \/ \E c \in Calls : NormalizeStep(c)
  \/ \E c \in Calls : MergeStep(c)
  \/ \E c \in Calls : CreateBackend(c)
  \/ \E c \in Calls : PushBackend(c)
  \/ \E c \in Calls : AddRegistrar(c)
  \/ \E c \in Calls : AddFeature(c)
  \/ \E c \in Calls : InvokeStart(c)
  \/ \E c \in Calls : RegistrarRegister(c)
  \/ \E c \in Calls : InstantiateDeps(c)
  \/ \E c \in Calls : RouterFactoryBegin(c)
  \/ \E c \in Calls : UserRouterFactory(c)
  \/ \E c \in Calls : CreateHttpServerSettle(c)
  \/ \E c \in Calls : AddShutdownHook(c)
  \/ \E c \in Calls : ServerStartInvoke(c)
  \/ \E c \in Calls : ServerStartSettle(c)
  \/ \E c \in Calls : DiscoveryFactoryRun(c)
  \/ \E c \in Calls : UserDiscoveryFactory(c)
  \/ \E c \in Calls : StartSettle(c)
  \/ \E c \in Calls : ObjectAssign(c)
  \/ RegisterTestHooks
  \/ HookBegin
  \/ \E b \in Calls, r \in { "fulfilled", "rejected" } : StopSettle(b, r)
  \/ HookFinish

Spec == Init /\ [][Next]_vars

\* The normalizer and the merger on every services list of up to MaxServices
\* entries: one call, made with that list, runs up to the merged list.
InitCompose ==
  /\ InitCommon
  /\ pc = [c \in Calls |-> IF c = 1 THEN "normalize" ELSE "idle"]
  /\ cur = {1}
  /\ services \in { [c \in Calls |-> IF c = 1 THEN svcs ELSE << >>] :
                      svcs \in SeqsUpTo(Entries, MaxServices) }
  /\ dupPolicy = "last"
  /\ registered = TRUE
  /\ afterAllIsFunction = TRUE
  /\ afterAllCallbacks = 1
  /\ registerCalls = 1

NextCompose == NormalizeStep(1) \/ MergeStep(1)

SpecCompose == InitCompose /\ [][NextCompose]_vars

\* ==================================================================== claims
\* The positions of a call at which the merge loop has finished.
Merged(c) == pc[c] \notin { "idle", "normalize", "merge" } /\ factories[c] # << >>

\* The positions in the list fs of the factories for service id.
IndexesOf(fs, id) == { k \in 1..Len(fs) : fs[k].service.id = id }

\* The ids the user's services list names that are ids of default factories.
UserDefaultIds(c) ==
  { Normalize(services[c])[i].service.id : i \in 1..Len(services[c]) }
    \cap Range(DefaultIds)

C10_NormalizerShapes ==
  \A c \in Calls : pc[c] = "merge" =>
    /\ Len(factories[c]) = Len(services[c])
    /\ \A i \in 1..Len(services[c]) :
         LET e == services[c][i]
             f == factories[c][i]
         IN  /\ e.shape = "array" =>
                  /\ f.service = e.ref
                  /\ f.deps = {}
                  /\ e.ref.scope # "plugin" => f.produces = Produces("value", e.impl)
                  /\ e.ref.scope = "plugin" => f.produces = Produces("provider", e.impl)
             /\ e.shape = "function" => f = e.factory
             /\ e.shape = "factory" => f = e.factory

\* C10 witness: the normalizer has run on a plugin-scoped and a root-scoped
\* array entry.
C10_Witness ==
  /\ pc[1] = "merge"
  /\ Len(services[1]) = 2
  /\ services[1][1].shape = "array" /\ services[1][1].ref.scope = "plugin"
  /\ services[1][2].shape = "array" /\ services[1][2].ref.scope = "root"
  /\ factories[1][1].produces.kind = "provider"
  /\ factories[1][2].produces.kind = "value"

\* The services list of call c names the root HTTP router service.
ReplacesRootHttpRouter(c) ==
  IndexesOf(Normalize(services[c]), RootHttpRouterId) # {}

\* Call c was made with no services, no extensionPoints and no features.
EmptyOptions(c) ==
  services[c] = << >> /\ extensionPoints[c] = << >> /\ features[c] = << >>

\* C2: when the afterAll callback runs, whatever subset of the stop() calls
\* rejects, stop() has been invoked on every backend that was in the registry,
\* the callback completes without rejecting, and the registry is empty when it
\* finishes.
C2_TeardownIsBestEffort ==
  [][ (hookPc = "awaiting" /\ hookPc' = "done") =>
        /\ hookOutcome' = "resolved"
        /\ backendInstancesToCleanUp' = << >>
        /\ \A b \in Range(hookBackends) : stopCalls[b] >= 1 ]_vars

\* C2 witness: the callback finished after stopping two backends, of which
\* one stop() rejected (and was logged) and the other fulfilled.
C2_Witness ==
  /\ hookPc = "done"
  /\ hookOutcome = "resolved"
  /\ Len(hookBackends) = 2
  /\ errorLog = { hookBackends[1] }
  /\ stopCalls[hookBackends[2]] = 1
  /\ backendInstancesToCleanUp = << >>

\* C3 (as stated): every backend recorded in the registry is stopped by the
\* callback exactly once: none leaves the registry without stop() having been
\* invoked on it, and none is stopped twice.
C3_StoppedExactlyOnce ==
  \A c \in recorded :
    /\ stopCalls[c] <= 1
    /\ c \notin Range(backendInstancesToCleanUp) => stopCalls[c] = 1

\* C4: a call with no services, extensionPoints and features never fails with
\* one of the two slot errors, and once its start has completed the slot holds
\* the handle its own root HTTP router factory created, which is what the
\* `server` property of the returned backend yields, without throwing.
C4_EmptyOptionsServer ==
  \A c \in Calls : (pc[c] # "idle" /\ EmptyOptions(c)) =>
    /\ raised[c] \notin { "Test server not started yet",
                          "TestBackend server is not available" }
    /\ pc[c] \in { "assign", "done" } =>
         /\ server[SlotOf(c)] = c
         /\ serverState[c] \in { "listening", "stopped" }
    /\ pc[c] = "done" =>
         /\ outcome[c] = "resolved"
         /\ ReadServerProperty(c) = [kind |-> "value", value |-> c]

\* C4 witness: two calls with empty options have both returned a backend.
C4_Witness ==
  /\ \A c \in { 1, 2 } : EmptyOptions(c) /\ pc[c] = "done"
  /\ ReadServerProperty(1).value = 1
  /\ ReadServerProperty(2).value = 2
  /\ serverState[1] = "listening"

\* C5 (as stated): a read of `server` made by test code after the call and
\* before start has completed (while the call is suspended) throws 'TestBackend server is not available'.
C5_EarlyReadThrows ==
  \A c \in Calls :
    (cur = {} /\ pc[c] \notin { "idle", "done", "rejected" }) =>
      ReadServerProperty(c).kind = "threw"

\* C6 (as stated): if the services option names the root HTTP router service,
\* a read of `server` on the returned TestBackend throws.
C6_ReplacedRouterReadThrows ==
  \A c \in Calls :
    (pc[c] = "done" /\ ReplacesRootHttpRouter(c)) =>
      ReadServerProperty(c).kind = "threw"

\* C7: whatever throws during startup (createSpecializedBackend, a service
\* factory, the synthesized router or discovery factory, backend.start()),
\* startTestBackend rejects with that very error and returns no backend; it
\* rejects with nothing but an error raised during startup.
C7_StartupErrorsPropagate ==
  \A c \in Calls :
    /\ raised[c] # "none" =>
         /\ pc[c] = "rejected"
         /\ outcome[c] = raised[c]
         /\ serverProp[c] = NoServer
    /\ pc[c] = "rejected" => outcome[c] = raised[c] /\ raised[c] # "none"
    /\ outcome[c] \notin { "pending", "resolved" } => pc[c] = "rejected"

\* C7 witness: one call rejected with the error of server.start(), another
\* with the error of backend.start().
C7_Witness ==
  /\ pc[1] = "rejected" /\ outcome[1] = "server.start failed"
  /\ pc[2] = "rejected" /\ outcome[2] = "backend.start failed"

\* C8 (as stated): the slot is one module-level variable shared by all calls:
\* what the router factory of one call writes is what the discovery factory
\* and the accessor of every other call read.
C8_SlotIsShared ==
  \A c, d \in Calls :
    (pc[c] # "idle" /\ pc[d] # "idle") => server[SlotOf(c)] = server[SlotOf(d)]

\* C8 (amended): the slot is a variable of each startTestBackend call: when
\* calls overlap, the slot of a call only ever holds the handle created by the
\* root HTTP router factory of that call, and the discovery factory and the
\* `server` property of a call are built from that call's own handle.
C8_SlotIsPerCall ==
  \A c \in Calls :
    /\ server[SlotOf(c)] \in { NoServer, c }
    /\ discoveryPort[c] \in { NoServer, c }
    /\ serverProp[c] \in { NoServer, c }

\* C8 witness: two calls overlapped; the later one has returned with its own
\* server while the earlier one, whose discovery was built from its own
\* server, is still starting.
C8_Witness ==
  /\ pc[1] = "startSettle" /\ discoveryPort[1] = 1
  /\ pc[2] = "done" /\ serverProp[2] = 2

\* C9: however often registerTestHooks is called, afterAll is given at most
\* one callback; where afterAll is no function, nothing is registered and no
\* state changes.
C9_HookRegisteredAtMostOnce ==
  /\ afterAllCallbacks <= 1
  /\ registered <=> (afterAllCallbacks = 1)
  /\ ~afterAllIsFunction =>
       /\ afterAllCallbacks = 0
       /\ ~registered
       /\ hookPc = "idle"

\* C9 witness: registerTestHooks was called twice and one callback is
\* registered.
C9_Witness ==
  /\ registerCalls >= 2
  /\ afterAllIsFunction
  /\ registered
  /\ afterAllCallbacks = 1

\* --------------------------------------------------------------- C11 .. C20
\* C11 (as stated): the complete factory list handed to
\* createSpecializedBackend holds exactly one factory per service id, also
\* when the user list names an id twice or names the root HTTP router or the
\* discovery service.
C11_OneFactoryPerId ==
  \A c \in Calls : backend[c] # << >> => ~HasDuplicateIds(backend[c])

\* The ids named by the normalized services list of call c.
UserIdsOf(c) == { Normalize(services[c])[i].service.id : i \in 1..Len(services[c]) }

\* C12: the merged list is the normalized user factories, unchanged and in
\* their order, followed by exactly the default factories whose id the user
\* list does not name, in the order of the default set.
C12_MergeKeepsUserPrefix ==
  \A c \in Calls : Merged(c) =>
    LET user == Normalize(services[c])
        n == Len(user)
        fs == factories[c]
    IN  /\ Len(fs) >= n
        /\ SubSeq(fs, 1, n) = user
        /\ SubSeq(fs, n + 1, Len(fs))
             = SelectSeq(defaultServiceFactories,
                         LAMBDA d : d.service.id \notin UserIdsOf(c))

\* C12 witness: the merge loop ran on two user factories, one of them for the
\* id of a default in the middle of the default set, and appended the other
\* eleven defaults.
C12_Witness ==
  /\ pc[1] = "create"
  /\ Len(services[1]) = 2
  /\ UserIdsOf(1) = { "custom", "urlReader" }
  /\ Len(factories[1]) = Len(DefaultIds) + 1
  /\ factories[1][3].service.id = "cache"

\* C13 (as stated): whenever the synthesized discovery factory of a backend
\* runs, the synthesized root HTTP router factory of that backend has run to
\* completion, so the slot holds the backend's handle and the error
\* 'Test server not started yet' is never raised.
C13_SlotReadyWhenDiscoveryRuns ==
  \A c \in Calls :
    /\ (pc[c] = "discovery" /\ DiscoveryActive(c) = "synth")
         => (server[SlotOf(c)] = c /\ shutdownHook[c])
    /\ raised[c] # "Test server not started yet"

\* C14 (as stated): in the synthesized root HTTP router factory the server is
\* started before the shutdown hook is registered, so a registered hook always
\* finds a server that has been started.
C14_ServerStartedBeforeHook ==
  \A c \in Calls : shutdownHook[c] => serverState[c] \notin { "none", "created" }

\* The positions of a call before its root HTTP router factory has created
\* the server.
BeforeServerCreated ==
  { "idle", "normalize", "merge", "create", "push", "addRegistrar",
    "addFeatures", "start", "starting", "instantiate", "router",
    "createHttpServer" }

\* The positions of a call after its root HTTP router factory has returned.
AfterRouterFactory == { "discovery", "startSettle", "assign", "done" }

\* C14 (amended): in the synthesized root HTTP router factory the server is
\* created and its handle stored in the slot first, the shutdown hook is
\* registered next, while the server is created but not yet started,
\* server.start() is invoked only after that, and the router is returned
\* last, once start has completed.
C14_RouterFactoryOrder ==
  \A c \in Calls :
    /\ pc[c] \in BeforeServerCreated
         => (server[SlotOf(c)] = NoServer /\ serverState[c] = "none" /\ ~shutdownHook[c])
    /\ pc[c] = "addShutdownHook"
         => (server[SlotOf(c)] = c /\ serverState[c] = "created" /\ ~shutdownHook[c])
    /\ pc[c] = "serverStart"
         => (server[SlotOf(c)] = c /\ serverState[c] = "created" /\ shutdownHook[c])
    /\ pc[c] = "awaitServerStart"
         => (server[SlotOf(c)] = c /\ serverState[c] \in { "starting", "stopped" }
             /\ shutdownHook[c])
    /\ (pc[c] \in AfterRouterFactory /\ RouterActive(c) = "synth")
         => (server[SlotOf(c)] = c /\ serverState[c] \in { "listening", "stopped" }
             /\ shutdownHook[c])

\* C14 witness: the hook of call 1 is registered on a server that exists but
\* has not been started, just before server.start() is invoked.
C14_Witness ==
  /\ pc[1] = "serverStart"
  /\ server[SlotOf(1)] = 1
  /\ shutdownHook[1]
  /\ serverState[1] = "created"

\* The positions of a call from the invocation of backend.start() on.
StartInvoked ==
  { "starting", "instantiate", "router", "createHttpServer", "addShutdownHook",
    "serverStart", "awaitServerStart", "discovery", "startSettle", "assign",
    "done" }

\* The errors that leave startTestBackend before a backend exists.
CreateErrors == { "Duplicate service implementations", "createSpecializedBackend failed" }

\* Call c got as far as invoking backend.start().
ReachedStart(c) ==
  \/ pc[c] \in StartInvoked \cup { "start" }
  \/ pc[c] = "rejected" /\ raised[c] \notin CreateErrors

\* C15: startTestBackend creates the backend, then appends it to the cleanup
\* registry, then adds the registrar feature, then the supplied features in
\* list order, then calls backend.start(); the registrar registers every
\* extensionPoints override during start.  From before start is invoked the
\* backend has been recorded in the registry and stays there until the
\* teardown hook drains the registry, also when start fails.
C15_StartupStepOrder ==
  \A c \in Calls :
    /\ pc[c] = "push"
         => (backend[c] # << >> /\ c \notin recorded /\ added[c] = << >>)
    /\ pc[c] = "addRegistrar"
         => (c \in Range(backendInstancesToCleanUp) /\ added[c] = << >>)
    /\ pc[c] = "addFeatures"
         => /\ c \in Range(backendInstancesToCleanUp)
            /\ Len(added[c]) \in 1..Len(features[c])
            /\ added[c] = << RegistrarId >> \o SubSeq(features[c], 1, Len(added[c]) - 1)
    /\ ReachedStart(c)
         => /\ added[c] = << RegistrarId >> \o features[c]
            /\ c \in recorded
            /\ c \in Range(backendInstancesToCleanUp) \/ hookPc = "done"
    /\ pc[c] \in { "idle", "normalize", "merge", "create", "push", "addRegistrar",
                   "addFeatures", "start", "starting" }
         => registeredExtensionPoints[c] = << >>
    /\ pc[c] \in StartInvoked \ { "starting" }
         => registeredExtensionPoints[c] = extensionPoints[c]

\* C15 witness: start of call 1 failed after the registrar and two features
\* were added in order and the override was registered; the backend is
\* still in the registry.
C15_Witness ==
  /\ pc[1] = "rejected"
  /\ raised[1] = "backend.start failed"
  /\ added[1] = << RegistrarId, "featA", "featB" >>
  /\ registeredExtensionPoints[1] # << >>
  /\ 1 \in Range(backendInstancesToCleanUp)

\* C16 (as stated): a backend is in the cleanup registry only if its start
\* completed successfully.
C16_RegistryHoldsStartedOnly ==
  \A c \in Calls : c \in Range(backendInstancesToCleanUp) => pc[c] = "done"

\* A backend of call c exists and the statement after its creation has run.
CreatedAndPushed(c) ==
  /\ backend[c] # << >>
  /\ pc[c] # "push"

\* C16 (amended), the states: a backend is in the registry from right after
\* it is created, before start is invoked and whether or not start succeeds,
\* until the teardown hook drains the registry; nothing else is in it.
C16_RegistryStates ==
  \A c \in Calls :
    /\ c \in Range(backendInstancesToCleanUp) => CreatedAndPushed(c)
    /\ CreatedAndPushed(c) => (c \in Range(backendInstancesToCleanUp) \/ hookPc = "done")

\* C16 (amended), the steps: the registry changes only by the append of a
\* newly created backend or by the teardown hook emptying it.
C16_RegistrySteps ==
  backendInstancesToCleanUp' # backendInstancesToCleanUp
    => \/ \E c \in Calls :
            /\ pc[c] = "push"
            /\ backendInstancesToCleanUp' = Append(backendInstancesToCleanUp, c)
       \/ /\ hookPc = "awaiting" /\ hookPc' = "done"
          /\ backendInstancesToCleanUp' = << >>

\* C16 (amended): the cleanup registry is appended to as soon as a backend is
\* created, before backend.start() is invoked and whether or not start later
\* succeeds; during startup the registry only grows, and only the teardown
\* hook removes entries.
C16_RegistryRecordsCreated == []C16_RegistryStates /\ [][C16_RegistrySteps]_vars

\* C16 witness: the start of call 1 failed in server.start() and its backend
\* is in the registry.
C16_Witness ==
  /\ pc[1] = "rejected"
  /\ raised[1] = "server.start failed"
  /\ 1 \in Range(backendInstancesToCleanUp)
  /\ hookPc = "idle"

\* C17, the steps: the slot of a call is written only while it is empty, only
\* by that call's root HTTP router factory when createHttpServer settles, and
\* with that call's own handle; a populated slot keeps its handle.
C17_SlotSteps ==
  \A c \in Calls :
    /\ server[c] # NoServer => server'[c] = server[c]
    /\ server'[c] # server[c]
         => (pc[c] = "createHttpServer" /\ RouterActive(c) = "synth" /\ server'[c] = c)

\* C17: the live-server slot of a backend is absent until the synthesized
\* root HTTP router factory writes it, is written exactly once, and never
\* changes or reverts to absent afterwards, also after the server is stopped.
C17_SlotWrittenOnce ==
  /\ [](\A c \in Calls : pc[c] \in BeforeServerCreated => server[c] = NoServer)
  /\ [][C17_SlotSteps]_vars

\* C17 witness: the teardown hook has stopped the backend and server of call
\* 1 and the slot still holds the handle.
C17_Witness ==
  /\ hookPc = "done"
  /\ stopWrapper[1] = "fulfilled"
  /\ serverState[1] = "stopped"
  /\ server[SlotOf(1)] = 1

\* C18, the states: a call resolves only with a populated slot, and the
\* `server` property of the returned backend is the value the getter gave
\* when Object.assign ran it, so reads of it yield the handle; a call whose
\* synthesized root HTTP router factory never ran does not resolve, it
\* rejects with 'TestBackend server is not available' when it gets as far as
\* Object.assign, and its backend has no `server` property.
C18_ResolvedStates ==
  \A c \in Calls :
    /\ pc[c] = "done"
         => /\ outcome[c] = "resolved"
            /\ RouterActive(c) = "synth"
            /\ server[SlotOf(c)] # NoServer
            /\ serverProp[c] = server[SlotOf(c)]
            /\ ReadServerProperty(c) = [kind |-> "value", value |-> server[SlotOf(c)]]
    /\ pc[c] = "assign" => outcome[c] = "pending"
    /\ raised[c] = "TestBackend server is not available"
         => /\ pc[c] = "rejected"
            /\ outcome[c] = raised[c]
            /\ RouterActive(c) = "user"
            /\ server[SlotOf(c)] = NoServer
            /\ ReadServerProperty(c).kind = "undefined"
    /\ serverProp[c] # NoServer => pc[c] = "done"

\* C18, the steps: the getter is not run again, so the property keeps the
\* value it was given.
C18_PropertySteps ==
  \A c \in Calls :
    /\ serverProp[c] # NoServer => serverProp'[c] = serverProp[c]
    /\ serverProp'[c] # serverProp[c] => (pc[c] = "assign" /\ pc'[c] = "done")
    /\ (pc[c] = "assign" /\ pc'[c] # "assign")
         => IF server[SlotOf(c)] = NoServer
            THEN pc'[c] = "rejected" /\ raised'[c] = "TestBackend server is not available"
            ELSE pc'[c] = "done" /\ serverProp'[c] = server[SlotOf(c)]

C19_HookStates ==
  \A c \in Calls :
    /\ serverState[c] \in { "starting", "listening" }
         => (shutdownHook[c] /\ server[SlotOf(c)] = c)
    /\ raised[c] = "server.start failed"
         => (shutdownHook[c] /\ server[SlotOf(c)] = c /\ serverState[c] # "none")
    /\ (cur = {} /\ serverState[c] # "none") => shutdownHook[c]

\* C19, the steps: an orderly stop of a backend whose server was created
\* stops that server.
C19_StopSteps ==
  \A b \in Calls :
    (/\ stopWrapper[b] = "pending"
     /\ stopWrapper'[b] = "fulfilled"
     /\ b \notin errorLog'
     /\ serverState[b] # "none")
      => serverState'[b] = "stopped"

\* C19: whenever the test HTTP server of a backend has begun starting or is
\* listening, the shutdown hook that stops it is already registered with the
\* root lifecycle, also when server.start() fails after the server was
\* created; an orderly backend shutdown reaches server.stop() for a created
\* server.
C19_HookCoversStartedServer == []C19_HookStates /\ [][C19_StopSteps]_vars

\* C19 witness: server.start() of call 1 failed, the call rejected, and the
\* teardown hook's orderly stop of the backend stopped the created server.
C19_Witness ==
  /\ raised[1] = "server.start failed"
  /\ shutdownHook[1]
  /\ stopWrapper[1] = "fulfilled"
  /\ 1 \notin errorLog
  /\ serverState[1] = "stopped"

\* C20, the states: the hook is installed at most once and never without an
\* afterAll global; without it no backend is ever stopped and every recorded
\* backend is in the registry; a backend that is in the registry after the
\* hook has run has never had stop() invoked.
C20_NeverStoppedStates ==
  /\ afterAllCallbacks <= 1
  /\ ~afterAllIsFunction
       => /\ afterAllCallbacks = 0
          /\ hookPc = "idle"
          /\ \A c \in Calls : stopCalls[c] = 0
          /\ \A c \in recorded : c \in Range(backendInstancesToCleanUp)
  /\ hookPc = "done"
       => \A c \in Range(backendInstancesToCleanUp) : stopCalls[c] = 0 /\ c \notin Range(hookBackends)

\* C20, the steps: once the hook has run, or when none was installed, nothing
\* re-arms it: a backend in the registry stays there and its stop() is not
\* invoked.
C20_NeverStoppedSteps ==
  (hookPc = "done" \/ ~afterAllIsFunction)
    => /\ hookPc' = hookPc
       /\ \A c \in Range(backendInstancesToCleanUp) :
            c \in Range(backendInstancesToCleanUp') /\ stopCalls'[c] = stopCalls[c]

\* C20: a backend recorded in the cleanup registry after the single teardown
\* hook has run, or when no afterAll global existed so that no hook was
\* installed, is never stopped by this module and stays in the registry.
C20_LateBackendNeverStopped == []C20_NeverStoppedStates /\ [][C20_NeverStoppedSteps]_vars

\* C20 witness: the teardown hook ran and stopped the backend of call 1; the
\* backend of call 2 was recorded afterwards, its start completed, and it is
\* in the registry with stop() never invoked.
C20_Witness ==
  /\ hookPc = "done"
  /\ stopCalls[1] = 1
  /\ backendInstancesToCleanUp = << 2 >>
  /\ stopCalls[2] = 0
  /\ pc[2] = "done"

====
